---- MODULE Spec2Model ----
(***************************************************************************)
(* Model of iris/bin/owasync.py: the OWA mailbox poller that relays unread *)
(* mail to iris-api and marks it read in bulk.                             *)
(*                                                                         *)
(* Messages are numbered 1..NMsg in order of receipt, so a larger id is a  *)
(* later datetime_received.  An optional Python value is a record with the *)
(* field isNone; reading an attribute of None is the AttributeError the    *)
(* interpreter raises, modelled as the result field "raised".              *)
(***************************************************************************)
EXTENDS Integers, Sequences, FiniteSets, TLC

\* ---------------------------------------------------------------- bounds
\* the messages the mailbox receives in a run
NMsg == 3
\* the poll cycles of a run
MaxCycles == 2
\* the longest header list is_pointless_message is called on by itself
MaxHdr == 2
\* the failures of a run: EWSError from the provider, failed POSTs
MaxFaults == 3
\* the longest string configured as sleep_interval
MaxStr == 3
\* the largest number configured as sleep_interval
MaxInterval == 4

Msgs == 1..NMsg

\* ------------------------------------------------------- optional values
None == [isNone |-> TRUE]
Some(x) == [isNone |-> FALSE, val |-> x]

Hdr(n, v) == [name |-> n, value |-> v]

\* ---------------------------------------------------------------- metrics
default_metrics ==
  [ owa_api_failure_count |-> 0,
    message_relay_success_count |-> 0,
    message_relay_failure_count |-> 0,
    total_inbox_count |-> 0,
    unread_inbox_count |-> 0,
    message_process_count |-> 0,
    message_ignore_count |-> 0 ]

\* metrics.incr(key): the counter goes up by one
incr(m, key) == [m EXCEPT ![key] = @ + 1]

\* metrics.set(key, value): the gauge takes the value
set(m, key, value) == [m EXCEPT ![key] = value]

\* ------------------------------------------------------------- classifier
email_headers_to_ignore ==
  { Hdr("X-Autoreply", "yes"),
    Hdr("Auto-Submitted", "auto-replied"),
    Hdr("Precedence", "bulk") }

\* a classifier that compares the header name only
InListByName(h, headers) == \E i \in 1..Len(headers) : headers[i].name = h.name

\* {'name': ..., 'value': ...} in headers: list membership by equality
InList(h, headers) == \E i \in 1..Len(headers) : headers[i] = h

is_pointless_message(headers) ==
  \E header \in email_headers_to_ignore :
     InList(Hdr(header.name, header.value), headers)

\* ------------------------------------------------------------------ relay
Whitespace == {" ", "\t"}

RECURSIVE lstrip(_)
lstrip(s) == IF s # <<>> /\ Head(s) \in Whitespace THEN lstrip(Tail(s)) ELSE s

RECURSIVE rstrip(_)
rstrip(s) ==
  IF s # <<>> /\ s[Len(s)] \in Whitespace
    THEN rstrip(SubSeq(s, 1, Len(s) - 1))
    ELSE s

\* str.strip(): leading and trailing whitespace removed
strip(s) == rstrip(lstrip(s))

\* Response.raise_for_status(): HTTPError for a 4xx or 5xx status only
raise_for_status(status_code) == status_code >= 400 /\ status_code < 600

\* what iris_client.post(...) does: a RequestException, or a response
Response(exc, status_code) == [exc |-> exc, status_code |-> status_code]

\* the result of one call of relay
RelayResult(raised, outcome, m, posted) ==
  [raised |-> raised, outcome |-> outcome, metrics |-> m, posts |-> posted]

\* a payload that names the last recipient and keeps the body as it is
relay_data_last_recipient(message) ==
  LET headers == message.headers.val
      to == message.to_recipients
      withTo == IF (~to.isNone) /\ to.val # <<>>
                  THEN Append(headers, Hdr("To", to.val[Len(to.val)]))
                  ELSE headers
  IN [headers |-> Append(withTo, Hdr("From", message.sender.val)),
      body |-> message.text_body.val]

\* lines 128-133: the To and From headers and the payload
relay_data(message) ==
  LET headers == message.headers.val
      withTo == IF (~message.to_recipients.isNone) /\ message.to_recipients.val # <<>>
                  THEN Append(headers, Hdr("To", message.to_recipients.val[1]))
                  ELSE headers
  IN [headers |-> Append(withTo, Hdr("From", message.sender.val)),
      body |-> strip(message.text_body.val)]

\* lines 135-140: the POST and the two relay counters
relay_post(message, response, m) ==
  IF response.exc \/ raise_for_status(response.status_code)
    THEN RelayResult(FALSE, "Failed", incr(m, "message_relay_failure_count"),
                     <<relay_data(message)>>)
    ELSE RelayResult(FALSE, "Sent", incr(m, "message_relay_success_count"),
                     <<relay_data(message)>>)

relay(message, response, m) ==
  IF message.headers.isNone
    THEN \* line 115 reads message.sender.email_address for the log line
         IF message.sender.isNone
           THEN RelayResult(TRUE, "Raised", m, <<>>)
           ELSE RelayResult(FALSE, "Ignored", incr(m, "message_ignore_count"), <<>>)
    ELSE IF is_pointless_message(message.headers.val)
      THEN \* line 124 reads message.sender.email_address for the log line
           IF message.sender.isNone
             THEN RelayResult(TRUE, "Raised", m, <<>>)
             ELSE RelayResult(FALSE, "Ignored", incr(m, "message_ignore_count"), <<>>)
      ELSE \* line 131 reads message.sender.email_address,
           \* line 133 calls message.text_body.strip()
           IF message.sender.isNone \/ message.text_body.isNone
             THEN RelayResult(TRUE, "Raised", m, <<>>)
             ELSE relay_post(message, response, m)

\* ------------------------------------------------------------ the mailbox
Message(headers, sender, to_recipients, text_body) ==
  [headers |-> headers, sender |-> sender,
   to_recipients |-> to_recipients, text_body |-> text_body]

Body == <<" ", "a", "\t">>

\* the mail the provider may hold: ordinary, bulk, without body
MessageKinds ==
  { Message(Some(<<Hdr("Subject", "hi")>>), Some("s@x"), Some(<<"t1@x", "t2@x">>), Some(Body)),
    Message(Some(<<Hdr("Subject", "hi"), Hdr("Precedence", "bulk")>>), Some("s@x"),
            Some(<<"t1@x">>), Some(Body)),
    Message(Some(<<>>), Some("s@x"), None, None) }

\* the downstream answers: a transport failure, or a status
Responses ==
  { Response(TRUE, 0), Response(FALSE, 200), Response(FALSE, 304), Response(FALSE, 500) }

Max(S) == CHOOSE x \in S : \A y \in S : y <= x

Min(S) == CHOOSE x \in S : \A y \in S : x <= y

\* an ordering by 'datetime_received', oldest first
RECURSIVE order_by_received_asc(_)
order_by_received_asc(S) ==
  IF S = {} THEN <<>>
  ELSE <<Min(S)>> \o order_by_received_asc(S \ {Min(S)})

\* order_by('-datetime_received'): newest first
RECURSIVE order_by_received_desc(_)
order_by_received_desc(S) ==
  IF S = {} THEN <<>>
  ELSE <<Max(S)>> \o order_by_received_desc(S \ {Max(S)})

SeqToSet(q) == {q[i] : i \in 1..Len(q)}

\* a counter that counts only the messages that were POSTed
count_posted(n, r) == IF r.posts # <<>> THEN n + 1 ELSE n

\* line 88: processed_messages += 1, before relay is called
count_processed(n, r) == n + 1

\* a pending list the message joins before relay has dealt with it
pending_before_relay(pending, message, r) == Append(pending, message)

\* lines 90-94: the message joins the list after relay returned; when relay
\* raised, lines 93-94 are not reached
pending_after_relay(pending, message, r) ==
  IF r.raised THEN pending ELSE Append(pending, message)

\* a poll that gives up the messages when the inbox counts cannot be read
skip_messages_after_counts(raised) == IF raised THEN "bulk" ELSE "query"

\* lines 76-86: whether or not the counts were read, poll goes on to the messages
after_counts(raised) == "query"

\* a bulk update that is skipped when the iteration raised
bulk_update_unless_failed(pending, failed) == pending # <<>> /\ ~failed

\* line 100: if messages_to_mark_read, whatever happened in the loop
bulk_update_wanted(pending, failed) == pending # <<>>

VARIABLES
  box,                    \* the content of each message of the mailbox
  is_read,                \* per message: "future" (not yet received), "unread", "read"
  pc,                     \* where the main loop is
  cycle,                  \* the number of the poll cycle
  fetched,                \* the unread messages the query returns, newest first
  iter_pos,               \* how many messages the iterator has yielded
  processed_messages,     \* poll's local counter
  messages_to_mark_read,  \* poll's local list
  message_count,          \* what poll returned to main
  metrics,                \* the metrics module's counters
  relay_log,              \* this cycle's calls of relay: message and outcome
  posts,                  \* this cycle's POSTs: message and payload
  bulk_log,               \* this cycle's bulk_update requests
  bulk_failed,            \* this cycle's bulk_update raised
  iter_failed,            \* this cycle's iteration raised
  unacked,                \* the messages of the last finished cycle whose bulk_update raised
  cycle_unread,           \* the messages unread when this cycle's query ran
  faults,                 \* how many failures the provider and the downstream API have had
  counts_failed,          \* this cycle's read of the inbox counts raised
  api_failures_before,    \* owa_api_failure_count when this cycle started
  acked,                  \* the messages a bulk_update that succeeded has covered
  flushed,                \* what the metrics flush task emitted last
  call,                   \* the arguments of a function called on its own
  ret                     \* what that call returned

vars == <<box, is_read, pc, cycle, fetched, iter_pos, processed_messages,
          messages_to_mark_read, message_count, metrics, relay_log, posts,
          bulk_log, bulk_failed, iter_failed, unacked, cycle_unread, faults,
          counts_failed, api_failures_before, acked, flushed, call, ret>>

poll_locals == <<fetched, iter_pos, processed_messages, messages_to_mark_read>>
history == <<relay_log, posts, bulk_log, bulk_failed, iter_failed, unacked, cycle_unread>>
alone == <<call, ret>>

NoCall == [fn |-> "none"]

\* a query without the is_read filter
Unfiltered == {m \in Msgs : is_read[m] # "future"}

\* account.inbox.filter(is_read=False)
Unread == {m \in Msgs : is_read[m] = "unread"}
Received == {m \in Msgs : is_read[m] # "future"}

\* main before the loop: nothing polled yet, the counters as metrics.init leaves them
Fresh ==
  /\ cycle = 1
  /\ fetched = <<>>
  /\ iter_pos = 0
  /\ processed_messages = 0
  /\ messages_to_mark_read = <<>>
  /\ message_count = 0
  /\ metrics = default_metrics
  /\ relay_log = <<>>
  /\ posts = <<>>
  /\ bulk_log = <<>>
  /\ bulk_failed = FALSE
  /\ iter_failed = FALSE
  /\ unacked = {}
  /\ cycle_unread = {}
  /\ faults = 0
  /\ counts_failed = FALSE
  /\ api_failures_before = 0
  /\ acked = {}
  /\ flushed = default_metrics

Init ==
  /\ box \in [Msgs -> MessageKinds]
  /\ \E n \in 0..NMsg : is_read = [m \in Msgs |-> IF m <= n THEN "unread" ELSE "future"]
  /\ pc = "poll_counts"
  /\ Fresh
  /\ call = NoCall
  /\ ret = NoCall

\* new mail: the next message is received while the poller sleeps
Arrive ==
  /\ pc = "sleep"
  /\ \E m \in Msgs :
       /\ is_read[m] = "future"
       /\ \A k \in Msgs : k < m => is_read[k] # "future"
       /\ is_read' = [is_read EXCEPT ![m] = "unread"]
  /\ UNCHANGED alone
  /\ UNCHANGED <<counts_failed, api_failures_before, acked, flushed>>
  /\ UNCHANGED <<box, pc, cycle, poll_locals, message_count, metrics, history, faults>>

\* poll, lines 76-84: the inbox counts, then the locals
PollCounts ==
  /\ pc = "poll_counts"
  /\ \/ /\ metrics' = set(set(metrics, "total_inbox_count", Cardinality(Received)),
                            "unread_inbox_count", Cardinality(Unread))
        /\ counts_failed' = FALSE
        /\ UNCHANGED faults
     \/ \* lines 79-81: account.inbox raises EWSError
        /\ faults < MaxFaults
        /\ faults' = faults + 1
        /\ metrics' = incr(metrics, "owa_api_failure_count")
        /\ counts_failed' = TRUE
  /\ processed_messages' = 0
  /\ messages_to_mark_read' = <<>>
  /\ fetched' = <<>>
  /\ iter_pos' = 0
  /\ pc' = after_counts(counts_failed')
  /\ UNCHANGED alone
  /\ UNCHANGED <<api_failures_before, acked, flushed>>
  /\ UNCHANGED <<box, is_read, cycle, message_count, history>>

\* poll, line 87: the query runs when the loop asks for the first message
Query ==
  /\ pc = "query"
  /\ \/ /\ fetched' = order_by_received_desc(Unread)
        /\ cycle_unread' = Unread
        /\ pc' = "iterate"
        /\ UNCHANGED <<metrics, iter_failed, faults>>
     \/ \* lines 96-98: the provider raises EWSError
        /\ faults < MaxFaults
        /\ faults' = faults + 1
        /\ metrics' = incr(metrics, "owa_api_failure_count")
        /\ iter_failed' = TRUE
        /\ pc' = "bulk"
        /\ UNCHANGED <<fetched, cycle_unread>>
  /\ UNCHANGED alone
  /\ UNCHANGED <<counts_failed, api_failures_before, acked, flushed>>
  /\ UNCHANGED <<box, is_read, cycle, iter_pos, processed_messages,
                 messages_to_mark_read, message_count,
                 relay_log, posts, bulk_log, bulk_failed, unacked>>

\* poll, lines 87-94: one turn of the loop over the unread messages
IterNext ==
  /\ pc = "iterate"
  /\ iter_pos < Len(fetched)
  /\ LET message == fetched[iter_pos + 1] IN
     \E response \in Responses :
       LET r == relay(box[message], response, metrics) IN
         /\ r.outcome = "Failed" => faults < MaxFaults
         /\ faults' = IF r.outcome = "Failed" THEN faults + 1 ELSE faults
         /\ iter_pos' = iter_pos + 1
         /\ processed_messages' = count_processed(processed_messages, r)
         /\ metrics' = r.metrics
         /\ posts' = posts \o [i \in 1..Len(r.posts) |-> [msg |-> message, data |-> r.posts[i]]]
         /\ relay_log' = Append(relay_log, [msg |-> message, outcome |-> r.outcome])
         /\ messages_to_mark_read' = pending_after_relay(messages_to_mark_read, message, r)
         /\ pc' = IF r.raised THEN "crashed" ELSE "iterate"
  /\ UNCHANGED alone
  /\ UNCHANGED <<counts_failed, api_failures_before, acked, flushed>>
  /\ UNCHANGED <<box, is_read, cycle, fetched, message_count,
                 bulk_log, bulk_failed, iter_failed, unacked, cycle_unread>>

\* an iteration error that is logged but not counted
IterRaiseUncounted ==
  /\ pc = "iterate"
  /\ iter_pos < Len(fetched)
  /\ faults < MaxFaults
  /\ faults' = faults + 1
  /\ metrics' = metrics
  /\ iter_failed' = TRUE
  /\ pc' = "bulk"
  /\ UNCHANGED alone
  /\ UNCHANGED <<counts_failed, api_failures_before, acked, flushed>>
  /\ UNCHANGED <<box, is_read, cycle, poll_locals, message_count,
                 relay_log, posts, bulk_log, bulk_failed, unacked, cycle_unread>>

\* poll, lines 87 and 96-98: the iterator raises EWSError instead of yielding
IterRaise ==
  /\ pc = "iterate"
  /\ iter_pos < Len(fetched)
  /\ faults < MaxFaults
  /\ faults' = faults + 1
  /\ metrics' = incr(metrics, "owa_api_failure_count")
  /\ iter_failed' = TRUE
  /\ pc' = "bulk"
  /\ UNCHANGED alone
  /\ UNCHANGED <<counts_failed, api_failures_before, acked, flushed>>
  /\ UNCHANGED <<box, is_read, cycle, poll_locals, message_count,
                 relay_log, posts, bulk_log, bulk_failed, unacked, cycle_unread>>

\* poll, line 87: the iterator is exhausted
IterEnd ==
  /\ pc = "iterate"
  /\ iter_pos = Len(fetched)
  /\ pc' = "bulk"
  /\ UNCHANGED alone
  /\ UNCHANGED <<counts_failed, api_failures_before, acked, flushed>>
  /\ UNCHANGED <<box, is_read, cycle, poll_locals, message_count, metrics, history, faults>>

\* poll, lines 100-110: the bulk update, the gauge and the return.
\* account.bulk_update marks every listed message read, or raises and marks none.
BulkUpdate ==
  /\ pc = "bulk"
  /\ IF bulk_update_wanted(messages_to_mark_read, iter_failed)
       THEN /\ bulk_log' = Append(bulk_log, messages_to_mark_read)
            /\ \/ /\ is_read' = [m \in Msgs |->
                                   IF m \in SeqToSet(messages_to_mark_read)
                                     THEN "read" ELSE is_read[m]]
                  /\ metrics' = set(metrics, "message_process_count", processed_messages)
                  /\ bulk_failed' = FALSE
                  /\ unacked' = {}
                  /\ acked' = acked \cup SeqToSet(messages_to_mark_read)
                  /\ UNCHANGED faults
               \/ /\ faults < MaxFaults
                  /\ faults' = faults + 1
                  /\ metrics' = set(incr(metrics, "owa_api_failure_count"),
                                    "message_process_count", processed_messages)
                  /\ bulk_failed' = TRUE
                  /\ unacked' = SeqToSet(messages_to_mark_read)
                  /\ UNCHANGED <<is_read, acked>>
       ELSE /\ metrics' = set(metrics, "message_process_count", processed_messages)
            /\ unacked' = {}
            /\ UNCHANGED <<bulk_log, bulk_failed, is_read, faults, acked>>
  /\ message_count' = processed_messages
  /\ pc' = "sleep"
  /\ UNCHANGED alone
  /\ UNCHANGED <<counts_failed, api_failures_before, flushed>>
  /\ UNCHANGED <<box, cycle, poll_locals, relay_log, posts, iter_failed, cycle_unread>>

\* a loop that starts the next poll while the last one is still at its bulk update
SleepNotAwaited ==
  /\ pc \in {"sleep", "bulk"}
  /\ cycle < MaxCycles
  /\ cycle' = cycle + 1
  /\ pc' = "poll_counts"
  /\ relay_log' = <<>>
  /\ posts' = <<>>
  /\ bulk_log' = <<>>
  /\ bulk_failed' = FALSE
  /\ iter_failed' = FALSE
  /\ cycle_unread' = {}
  /\ fetched' = <<>>
  /\ iter_pos' = 0
  /\ processed_messages' = 0
  /\ messages_to_mark_read' = <<>>
  /\ UNCHANGED alone
  /\ counts_failed' = FALSE
  /\ api_failures_before' = metrics.owa_api_failure_count
  /\ UNCHANGED <<acked, flushed>>
  /\ UNCHANGED <<box, is_read, message_count, metrics, unacked, faults>>

\* main, lines 182-189: the sleep ends and the next cycle starts
Sleep ==
  /\ pc = "sleep"
  /\ cycle < MaxCycles
  /\ cycle' = cycle + 1
  /\ pc' = "poll_counts"
  /\ relay_log' = <<>>
  /\ posts' = <<>>
  /\ bulk_log' = <<>>
  /\ bulk_failed' = FALSE
  /\ iter_failed' = FALSE
  /\ cycle_unread' = {}
  /\ fetched' = <<>>
  /\ iter_pos' = 0
  /\ processed_messages' = 0
  /\ messages_to_mark_read' = <<>>
  /\ UNCHANGED alone
  /\ counts_failed' = FALSE
  /\ api_failures_before' = metrics.owa_api_failure_count
  /\ UNCHANGED <<acked, flushed>>
  /\ UNCHANGED <<box, is_read, message_count, metrics, unacked, faults>>

Next ==
  \/ Arrive
  \/ PollCounts
  \/ Query
  \/ IterNext
  \/ IterRaise
  \/ IterEnd
  \/ BulkUpdate
  \/ Sleep

Spec == Init /\ [][Next]_vars

\* ------------------------------------------------ the metrics flush task
\* spawn(metrics.emit_forever), line 158: the task emits the counters as they
\* are; it runs whenever the main loop waits for the network or sleeps
Flush ==
  /\ pc # "crashed"
  /\ flushed # metrics
  /\ flushed' = metrics
  /\ UNCHANGED alone
  /\ UNCHANGED <<counts_failed, api_failures_before, acked>>
  /\ UNCHANGED <<box, is_read, pc, cycle, poll_locals, message_count, metrics, history, faults>>

NextFlush ==
  \/ Next
  \/ Flush

Ordinary ==
  Message(Some(<<Hdr("Subject", "hi")>>), Some("s@x"), Some(<<"t1@x", "t2@x">>), Some(Body))
Bulk ==
  Message(Some(<<Hdr("Subject", "hi"), Hdr("Precedence", "bulk")>>), Some("s@x"),
          Some(<<"t1@x">>), Some(Body))

\* the loop and the flush task over a mailbox of ordinary and bulk mail in turn
InitFlush ==
  /\ box = [m \in Msgs |-> IF m % 2 = 0 THEN Bulk ELSE Ordinary]
  /\ \E n \in 0..NMsg : is_read = [m \in Msgs |-> IF m <= n THEN "unread" ELSE "future"]
  /\ pc = "poll_counts"
  /\ Fresh
  /\ call = NoCall
  /\ ret = NoCall

SpecFlush == InitFlush /\ [][NextFlush]_vars

\* ------------------------------------------- relay called on one message
RelayHeaders ==
  { None,
    Some(<<>>),
    Some(<<Hdr("Subject", "hi")>>),
    Some(<<Hdr("Precedence", "bulk")>>),
    Some(<<Hdr("precedence", "bulk")>>),
    Some(<<Hdr("Precedence", "list"), Hdr("X-Autoreply", "bulk")>>),
    Some(<<Hdr("X-Autoreply", "yes"), Hdr("Subject", "hi")>>),
    Some(<<Hdr("Subject", "hi"), Hdr("Auto-Submitted", "auto-replied")>>),
    Some(<<Hdr("To", "yes"), Hdr("From", "bulk")>>) }

RelayBodies == { None, Some(<<>>), Some(<<"a">>), Some(Body), Some(<<"\t", " ">>),
                 Some(<<"a", " ", "b">>) }

RelayMessages ==
  { Message(h, s, t, b) :
      h \in RelayHeaders,
      s \in {None, Some("s@x")},
      t \in {None, Some(<<>>), Some(<<"t1@x">>), Some(<<"t1@x", "t2@x">>)},
      b \in RelayBodies }

RelayResponses ==
  {Response(TRUE, 0)} \cup
  {Response(FALSE, c) : c \in {101, 199, 200, 204, 299, 300, 301, 304, 399, 400, 404, 500, 599}}

InitRelay ==
  /\ box = [m \in Msgs |-> CHOOSE k \in MessageKinds : TRUE]
  /\ is_read = [m \in Msgs |-> "future"]
  /\ pc = "relay_call"
  /\ Fresh
  /\ call \in [message : RelayMessages, response : RelayResponses]
  /\ ret = NoCall

\* relay(message, iris_client), lines 113-140
RelayCall ==
  /\ pc = "relay_call"
  /\ LET r == relay(call.message, call.response, metrics) IN
       /\ metrics' = r.metrics
       /\ ret' = [raised |-> r.raised, outcome |-> r.outcome, posts |-> r.posts]
  /\ pc' = "relay_done"
  /\ UNCHANGED <<box, is_read, cycle, poll_locals, message_count, history, faults, call>>
  /\ UNCHANGED <<counts_failed, api_failures_before, acked, flushed>>

NextRelay == RelayCall

SpecRelay == InitRelay /\ [][NextRelay]_vars

\* ------------------------- is_pointless_message called on one header list
HeaderNames == {"X-Autoreply", "Auto-Submitted", "Precedence", "precedence", "Subject"}
HeaderValues == {"yes", "auto-replied", "bulk", "Bulk", "list"}
HeaderPairs == {Hdr(n, v) : n \in HeaderNames, v \in HeaderValues}

HeaderLists == UNION {[1..n -> HeaderPairs] : n \in 0..MaxHdr}

InitClassify ==
  /\ box = [m \in Msgs |-> CHOOSE k \in MessageKinds : TRUE]
  /\ is_read = [m \in Msgs |-> "future"]
  /\ pc = "classify_call"
  /\ Fresh
  /\ call \in [headers : HeaderLists]
  /\ ret = NoCall

\* is_pointless_message(headers), lines 66-71
ClassifyCall ==
  /\ pc = "classify_call"
  /\ ret' = [pointless |-> is_pointless_message(call.headers)]
  /\ pc' = "classify_done"
  /\ UNCHANGED <<box, is_read, cycle, poll_locals, message_count, metrics, history, faults, call>>
  /\ UNCHANGED <<counts_failed, api_failures_before, acked, flushed>>

NextClassify == ClassifyCall

SpecClassify == InitClassify /\ [][NextClassify]_vars

\* ------------------------------------------- main: the sleep interval
\* line 178: owaconfig.get('sleep_interval', 60); line 180: nap_time = 60
default_sleep_interval == 60

Digits == {"0", "6"}
DigitValue(c) == IF c = "6" THEN 6 ELSE 0

\* the value of a string of decimal digits
RECURSIVE decimal(_)
decimal(str) ==
  IF str = <<>> THEN 0
  ELSE 10 * decimal(SubSeq(str, 1, Len(str) - 1)) + DigitValue(str[Len(str)])

\* what int(x) does with a configured value: an int is itself, a float is
\* truncated, a string is parsed after stripping whitespace and is a
\* ValueError unless it is all digits, None or a list is a TypeError
int(x) ==
  IF x.kind = "int" THEN [exc |-> "none", val |-> x.val]
  ELSE IF x.kind = "float" THEN [exc |-> "none", val |-> x.whole]
  ELSE IF x.kind = "str"
    THEN LET t == strip(x.text) IN
           IF t # <<>> /\ \A i \in 1..Len(t) : t[i] \in Digits
             THEN [exc |-> "none", val |-> decimal(t)]
             ELSE [exc |-> "ValueError", val |-> 0]
  ELSE [exc |-> "TypeError", val |-> 0]

\* main, lines 177-180: only ValueError is caught
nap_time(value) ==
  LET got == IF value.kind = "absent"
               THEN [kind |-> "int", val |-> default_sleep_interval] ELSE value
      r == int(got)
  IN IF r.exc = "ValueError" THEN [raised |-> FALSE, nap_time |-> default_sleep_interval]
     ELSE IF r.exc = "TypeError" THEN [raised |-> TRUE, nap_time |-> 0]
     ELSE [raised |-> FALSE, nap_time |-> r.val]

ConfigChars == {"0", "6", ".", "a", " "}
ConfigStrings == UNION {[1..n -> ConfigChars] : n \in 0..MaxStr}

\* what the configuration may hold under owa.sleep_interval
ConfigValues ==
  {[kind |-> "absent"], [kind |-> "null"], [kind |-> "list"]}
    \cup {[kind |-> "int", val |-> n] : n \in 0..MaxInterval}
    \cup {[kind |-> "float", whole |-> n] : n \in 0..MaxInterval}
    \cup {[kind |-> "str", text |-> str] : str \in ConfigStrings}

InitConfig ==
  /\ box = [m \in Msgs |-> CHOOSE k \in MessageKinds : TRUE]
  /\ is_read = [m \in Msgs |-> "future"]
  /\ pc = "config_call"
  /\ Fresh
  /\ call \in [value : ConfigValues]
  /\ ret = NoCall

\* main, lines 177-180
ConfigCall ==
  /\ pc = "config_call"
  /\ ret' = nap_time(call.value)
  /\ pc' = "config_done"
  /\ UNCHANGED <<box, is_read, cycle, poll_locals, message_count, metrics, history, faults, call>>
  /\ UNCHANGED <<counts_failed, api_failures_before, acked, flushed>>

NextConfig == ConfigCall

SpecConfig == InitConfig /\ [][NextConfig]_vars

\* ================================================================ claims
Relayed == {relay_log[i].msg : i \in 1..Len(relay_log)}
Outcomes == {"Sent", "Ignored", "Failed"}
PostedMsgs == [i \in 1..Len(posts) |-> posts[i].msg]
RelayedMsgs == [i \in 1..Len(relay_log) |-> relay_log[i].msg]
CycleOver == pc \in {"sleep", "crashed"}

\* C1: no error escapes a poll cycle: whatever the provider errors, the relay
\* failures and the message contents, poll returns to the loop, which sleeps
\* and goes on; the loop is never ended by an exception.
NoErrorEscapesPoll == pc # "crashed"

\* C2: once a cycle is over, every message it iterated and relayed, whatever
\* the outcome (Sent, Ignored or Failed), is in the cycle's bulk mark-read
\* request.
EveryIteratedMessageInBulkRequest ==
  CycleOver =>
    \A i \in 1..Len(relay_log) :
      relay_log[i].outcome \in Outcomes =>
        \E b \in 1..Len(bulk_log) : relay_log[i].msg \in SeqToSet(bulk_log[b])

\* C3: relay issues no POST and counts one ignored message when the headers
\* are absent or match an ignore rule; for every other message it issues
\* exactly one POST.
RelayPostsOnlyAcceptedMessages ==
  pc = "relay_done" =>
    IF call.message.headers.isNone \/ is_pointless_message(call.message.headers.val)
      THEN Len(ret.posts) = 0 /\ metrics.message_ignore_count = 1
      ELSE Len(ret.posts) = 1

\* C4: after a POST the success counter went up by one exactly when the status
\* is 2xx; any other status, or a transport failure, puts the failure counter
\* up by one and leaves the success counter alone.
Is2xx(response) ==
  ~response.exc /\ response.status_code >= 200 /\ response.status_code < 300

RelaySuccessIffStatus2xx ==
  (pc = "relay_done" /\ Len(ret.posts) = 1) =>
    /\ metrics.message_relay_success_count = (IF Is2xx(call.response) THEN 1 ELSE 0)
    /\ metrics.message_relay_failure_count = (IF Is2xx(call.response) THEN 0 ELSE 1)

\* C5: when the bulk mark-read of a cycle fails, every message of that cycle
\* stays unread, and in the next cycle whose fetch succeeds each of them is
\* passed to relay again.
UnackedMessagesRelayedAgain ==
  /\ (pc = "sleep" /\ bulk_failed) =>
       \A m \in SeqToSet(messages_to_mark_read) : is_read[m] = "unread"
  /\ (pc \in {"bulk", "crashed"} /\ ~iter_failed) => unacked \subseteq Relayed

\* C6: a message whose POST failed is POSTed once in its cycle; once the cycle
\* is over it is unread exactly when the cycle's bulk mark-read failed; and a
\* message marked read is not relayed in a later cycle.
FailedRelayUnreadIffBulkFailed ==
  /\ \A i, j \in 1..Len(posts) : i # j => posts[i].msg # posts[j].msg
  /\ CycleOver =>
       \A i \in 1..Len(relay_log) :
         relay_log[i].outcome = "Failed" =>
           (is_read[relay_log[i].msg] = "unread" <=> bulk_failed)
  /\ pc # "sleep" => \A m \in Relayed : is_read[m] # "read"

\* C7 as stated: when iteration raises a provider error after N messages, the
\* pending list holds exactly those N messages and poll makes exactly one bulk
\* update call.
PartialProgressOneBulkCall ==
  (pc = "sleep" /\ iter_failed) =>
    /\ messages_to_mark_read = RelayedMsgs
    /\ Len(messages_to_mark_read) = processed_messages
    /\ Len(bulk_log) = 1

\* C7 amended: when iteration raises a provider error after N messages, the
\* pending list holds exactly those N messages, the first N the query
\* returned; poll makes exactly one bulk update call for them when N >= 1 and
\* none when N = 0.
PartialProgressBulkCallIfAny ==
  (pc = "sleep" /\ iter_failed) =>
    /\ messages_to_mark_read = RelayedMsgs
    /\ messages_to_mark_read = SubSeq(fetched, 1, processed_messages)
    /\ bulk_log = (IF processed_messages >= 1 THEN <<messages_to_mark_read>> ELSE <<>>)

PartialProgressReached ==
  /\ pc = "sleep"
  /\ iter_failed
  /\ processed_messages = 2
  /\ Len(fetched) = 3
  /\ bulk_log = <<SubSeq(fetched, 1, 2)>>

\* C8: the count poll returns, and records in message_process_count, is the
\* number of messages iterated in the cycle, whatever their outcomes and
\* whether or not iteration or the bulk update raised; it is also the number
\* of messages in the pending-update list.
PollReturnsIteratedCount ==
  pc = "sleep" =>
    /\ message_count = Len(relay_log)
    /\ metrics.message_process_count = message_count
    /\ message_count = Len(messages_to_mark_read)

PollReturnedMixedCount ==
  /\ pc = "sleep"
  /\ message_count = 2
  /\ iter_failed
  /\ bulk_failed
  /\ {relay_log[i].outcome : i \in 1..Len(relay_log)} = {"Ignored", "Failed"}

\* C9: within a cycle the POSTs go out newest first: the POSTed messages are
\* the fetch order with the ignored ones left out.  With the inbox
\* [M3, M2, M1] and M2 bulk: two POSTs, M3 then M1, all three in the bulk
\* request, message_process_count 3 and message_ignore_count 1.
IsBulk(m) == is_pointless_message(box[m].headers.val)
WasPosted(e) == e.outcome \in {"Sent", "Failed"}

PostsNewestFirst ==
  /\ \A i, j \in 1..Len(posts) : i < j => posts[i].msg > posts[j].msg
  /\ pc # "crashed" =>
       /\ RelayedMsgs = SubSeq(fetched, 1, Len(relay_log))
       /\ PostedMsgs = [i \in 1..Len(SelectSeq(relay_log, WasPosted)) |->
                          SelectSeq(relay_log, WasPosted)[i].msg]
       /\ \A i \in 1..Len(relay_log) :
            WasPosted(relay_log[i]) <=> ~IsBulk(relay_log[i].msg)
  /\ (pc = "sleep" /\ cycle = 1 /\ fetched = <<3, 2, 1>> /\ ~iter_failed
        /\ IsBulk(2) /\ ~IsBulk(1) /\ ~IsBulk(3)) =>
       /\ PostedMsgs = <<3, 1>>
       /\ bulk_log = <<(<<3, 2, 1>>)>>
       /\ metrics.message_process_count = 3
       /\ metrics.message_ignore_count = 1

ThreeMessagesOneBulkReached ==
  /\ pc = "sleep"
  /\ cycle = 1
  /\ fetched = <<3, 2, 1>>
  /\ IsBulk(2)
  /\ PostedMsgs = <<3, 1>>
  /\ bulk_log = <<(<<3, 2, 1>>)>>

\* C10: is_pointless_message answers true exactly when one entry of the list
\* is X-Autoreply: yes, Auto-Submitted: auto-replied or Precedence: bulk, name
\* and value of the same entry, letter case included.
IsRulePair(h) ==
  \/ h.name = "X-Autoreply" /\ h.value = "yes"
  \/ h.name = "Auto-Submitted" /\ h.value = "auto-replied"
  \/ h.name = "Precedence" /\ h.value = "bulk"

PointlessIffRulePair ==
  pc = "classify_done" =>
    (ret.pointless <=> \E i \in 1..Len(call.headers) : IsRulePair(call.headers[i]))

PointlessNearMissReached ==
  /\ pc = "classify_done"
  /\ ~ret.pointless
  /\ call.headers = <<Hdr("Precedence", "yes"), Hdr("X-Autoreply", "bulk")>>

\* C11: the payload of a POSTed message carries the original headers in their
\* order, then a To header with the first recipient's address exactly when
\* there are recipients, then a From header with the sender's address; the
\* body is the text body without its leading and trailing whitespace; whether
\* a message is ignored depends on its original headers alone.
HasRecipients(message) ==
  ~message.to_recipients.isNone /\ message.to_recipients.val # <<>>

IsStripped(b, orig) ==
  /\ b = <<>> \/ (b[1] \notin Whitespace /\ b[Len(b)] \notin Whitespace)
  /\ \E i \in 1..(Len(orig) + 1) :
       /\ i + Len(b) - 1 <= Len(orig)
       /\ b = SubSeq(orig, i, i + Len(b) - 1)
       /\ \A k \in 1..Len(orig) :
            (k < i \/ k > i + Len(b) - 1) => orig[k] \in Whitespace

PayloadIsHeadersToFromBody ==
  pc = "relay_done" =>
    LET message == call.message
        orig == message.headers
    IN /\ Len(ret.posts) = 1 =>
            LET data == ret.posts[1]
                n == Len(orig.val)
                to == HasRecipients(message)
            IN /\ Len(data.headers) = n + (IF to THEN 2 ELSE 1)
               /\ SubSeq(data.headers, 1, n) = orig.val
               /\ to => data.headers[n + 1] = Hdr("To", message.to_recipients.val[1])
               /\ data.headers[Len(data.headers)] = Hdr("From", message.sender.val)
               /\ IsStripped(data.body, message.text_body.val)
       /\ ret.outcome = "Ignored" <=>
            /\ ~message.sender.isNone
            /\ orig.isNone \/ \E i \in 1..Len(orig.val) : IsRulePair(orig.val[i])

PayloadWithTwoRecipientsReached ==
  /\ pc = "relay_done"
  /\ Len(ret.posts) = 1
  /\ call.message.to_recipients = Some(<<"t1@x", "t2@x">>)
  /\ call.message.headers = Some(<<Hdr("To", "yes"), Hdr("From", "bulk")>>)
  /\ call.message.text_body = Some(Body)
  /\ ret.posts[1].body = <<"a">>

\* C12: in every poll cycle there is exactly one bulk mark-read request when
\* at least one message was iterated and none when no message was, and no
\* relay attempt of the cycle follows the bulk request.
OneBulkRequestAfterLastRelay ==
  /\ CycleOver => Len(bulk_log) = (IF Len(relay_log) >= 1 THEN 1 ELSE 0)
  /\ bulk_log # <<>> => pc = "sleep"

\* C13: at every point of a cycle, each message in the pending-update list
\* has had its classification and relay attempt completed in this cycle
\* (Sent, Ignored or Failed); none is in the list before its relay call is
\* over.
PendingOnlyAfterRelayCompleted ==
  /\ \A i \in 1..Len(messages_to_mark_read) :
       /\ i <= Len(relay_log)
       /\ relay_log[i].msg = messages_to_mark_read[i]
       /\ relay_log[i].outcome \in Outcomes
  /\ Len(messages_to_mark_read) <= iter_pos

PendingAfterFailedRelayReached ==
  /\ pc = "iterate"
  /\ Len(messages_to_mark_read) = 2
  /\ iter_pos = 2
  /\ relay_log[1].outcome = "Failed"
  /\ relay_log[2].outcome = "Ignored"

\* C14: each provider error of a cycle (inbox counts, iteration, bulk update)
\* is counted once and does not end the loop: owa_api_failure_count has gone
\* up by the number of provider steps that failed in the cycle, at most 3,
\* and is unchanged in a cycle without provider error.
FailedProviderSteps ==
  (IF counts_failed THEN 1 ELSE 0) + (IF iter_failed THEN 1 ELSE 0)
    + (IF bulk_failed THEN 1 ELSE 0)

ApiFailureCountIsFailedSteps ==
  pc \in {"poll_counts", "query", "iterate", "bulk", "sleep", "crashed"} =>
    /\ metrics.owa_api_failure_count = api_failures_before + FailedProviderSteps
    /\ FailedProviderSteps <= 3
    /\ pc = "crashed" => (~iter_failed /\ ~bulk_failed
                           /\ relay_log[Len(relay_log)].outcome = "Raised")

ThreeProviderErrorsReached ==
  /\ pc = "sleep"
  /\ counts_failed /\ iter_failed /\ bulk_failed
  /\ processed_messages >= 1
  /\ metrics.owa_api_failure_count = api_failures_before + 3

\* C15: a provider error while reading the inbox counts changes nothing in
\* the processing of the messages: the cycle still fetches the unread
\* messages newest first, relays them and issues the bulk mark-read for them.
CountsErrorLeavesProcessing ==
  counts_failed =>
    /\ pc \in {"iterate", "bulk"} =>
         /\ fetched = order_by_received_desc(cycle_unread)
         /\ RelayedMsgs = SubSeq(fetched, 1, iter_pos)
    /\ (pc = "bulk" /\ ~iter_failed) => RelayedMsgs = order_by_received_desc(Unread)
    /\ pc = "sleep" =>
         /\ messages_to_mark_read = RelayedMsgs
         /\ bulk_log = (IF RelayedMsgs # <<>> THEN <<RelayedMsgs>> ELSE <<>>)
         /\ ~iter_failed => RelayedMsgs = order_by_received_desc(cycle_unread)

CountsErrorThenBulkReached ==
  /\ pc = "sleep"
  /\ counts_failed
  /\ ~iter_failed
  /\ ~bulk_failed
  /\ Len(posts) = 2
  /\ bulk_log = <<(<<3, 2, 1>>)>>

\* C16: the sleep interval is 60 when none is configured; a configured value
\* that is not a number (a non-numeric or decimal string, null, a list) falls
\* back to 60 and the loop still starts; a configured integer is used as is.
IsNumericString(str) ==
  \E i, j \in 1..Len(str) :
    /\ i <= j
    /\ \A k \in 1..Len(str) :
         IF k >= i /\ k <= j THEN str[k] \in Digits ELSE str[k] \in Whitespace

IsNonNumeric(value) ==
  \/ value.kind \in {"null", "list"}
  \/ value.kind = "str" /\ ~IsNumericString(value.text)

SleepIntervalFallsBackTo60 ==
  pc = "config_done" =>
    /\ ~ret.raised
    /\ call.value.kind = "absent" => ret.nap_time = 60
    /\ call.value.kind = "int" => ret.nap_time = call.value.val
    /\ IsNonNumeric(call.value) => ret.nap_time = 60

\* C18: every call of relay increments exactly one of message_ignore_count,
\* message_relay_success_count and message_relay_failure_count, by one.
RelayCounterSum ==
  metrics.message_ignore_count + metrics.message_relay_success_count
    + metrics.message_relay_failure_count

RelayIncrementsExactlyOneCounter ==
  pc = "relay_done" => RelayCounterSum = 1

\* C19: a message that a successful bulk mark-read has covered stays read and
\* is never fetched, passed to relay or POSTed again; so a message is relayed
\* in a later cycle only if every bulk request that covered it failed.
AckedNeverRelayedAgain ==
  [][\A m \in acked :
       /\ is_read'[m] = "read"
       /\ fetched' # fetched => m \notin SeqToSet(fetched')
       /\ Len(relay_log') > Len(relay_log) => relay_log'[Len(relay_log')].msg # m
       /\ Len(posts') > Len(posts) => posts'[Len(posts')].msg # m]_vars

LaterCycleSkipsAckedReached ==
  /\ cycle = 2
  /\ pc = "iterate"
  /\ acked = {1}
  /\ unacked = {}
  /\ fetched = <<2>>
  /\ RelayedMsgs = <<2>>
  /\ Len(posts) = 1

\* C17: one worker drives the cycles one after the other: a cycle starts only
\* from the sleep that follows the return of the previous poll; and a step of
\* the metrics flush task touches nothing the cycle reads or writes, so the
\* POSTs, the bulk request and poll's return value are what they are without
\* it.
OneCycleAtATimeFlushApart ==
  [][/\ cycle' # cycle =>
          (pc = "sleep" /\ pc' = "poll_counts" /\ cycle' = cycle + 1
             /\ message_count = processed_messages)
     /\ pc' = "poll_counts" => (pc = "sleep" \/ pc = "poll_counts")
     /\ flushed' # flushed =>
          UNCHANGED <<box, is_read, pc, cycle, fetched, iter_pos, processed_messages,
                      messages_to_mark_read, message_count, metrics, relay_log,
                      posts, bulk_log, bulk_failed, iter_failed, unacked,
                      cycle_unread, faults>>]_vars

FlushedDuringCycleReached ==
  /\ pc = "sleep"
  /\ cycle = 2
  /\ flushed # metrics
  /\ flushed.message_relay_success_count = 1
  /\ metrics.message_relay_success_count = 2
  /\ bulk_log = <<(<<3, 2, 1>>)>>

====
